---- MODULE Spec2Model ----
(***************************************************************************)
(* A model of individuals/ind1.py: the person registry kept as a JSON      *)
(* document.  One invocation of main() is one step.  Text is a sequence of *)
(* Unicode code points, a file is a sequence of chunks of bytes.           *)
(***************************************************************************)
EXTENDS Integers, Sequences, FiniteSets, TLC

(***************************************************************************)
(* Bounds of the model.                                                    *)
(***************************************************************************)
\* An add is explored only while the loaded collection holds fewer records.
MaxPeople == 3
\* An add is explored only while fewer adds completed in a row from an absent
\* file.
MaxAdds == 3

(***************************************************************************)
(* JSON values as Python holds them after json.load.                       *)
(*   atom    : a string, None or a number                                  *)
(*   field   : the value under a key of a dict, or the key being absent    *)
(*   element : an item of the top-level list (a dict or an atom)           *)
(*   document: the top-level value (a list or an atom)                     *)
(***************************************************************************)
JString(s) == [kind |-> "string", str |-> s]
JNull == [kind |-> "null", str |-> <<>>]
JNumber(digits) == [kind |-> "number", str |-> digits]

FAbsent == [kind |-> "absent", str |-> <<>>, arr |-> <<>>]
FAtom(a) == [kind |-> a.kind, str |-> a.str, arr |-> <<>>]
FArray(atoms) == [kind |-> "array", str |-> <<>>, arr |-> atoms]
FString(s) == FAtom(JString(s))
FNone == FAtom(JNull)

Dict(su, na, zo, bd) ==
    [kind |-> "object", str |-> <<>>,
     surname |-> su, name |-> na, zodiac |-> zo, birthday |-> bd]
EAtom(a) ==
    [kind |-> a.kind, str |-> a.str,
     surname |-> FAbsent, name |-> FAbsent, zodiac |-> FAbsent, birthday |-> FAbsent]

DList(elems) == [kind |-> "array", str |-> <<>>, elems |-> elems]
DAtom(a) == [kind |-> a.kind, str |-> a.str, elems |-> <<>>]

Keys == <<"surname", "name", "zodiac", "birthday">>

\* d[k] of a dict d, FAbsent when the key is missing
Field(d, k) ==
    CASE k = "surname" -> d.surname
      [] k = "name" -> d.name
      [] k = "zodiac" -> d.zodiac
      [] k = "birthday" -> d.birthday

\* d[k] = v
SetField(d, k, v) ==
    CASE k = "surname" -> [d EXCEPT !.surname = v]
      [] k = "name" -> [d EXCEPT !.name = v]
      [] k = "zodiac" -> [d EXCEPT !.zodiac = v]
      [] k = "birthday" -> [d EXCEPT !.birthday = v]

\* the list of the str values of a list of string atoms
Strs(atoms) == [i \in DOMAIN atoms |-> atoms[i].str]
\* the list of string atoms of a list of str values
StrAtoms(strs) == [i \in DOMAIN strs |-> JString(strs[i])]

(***************************************************************************)
(* validation(): jsonschema.validate against the schema of lines 14-30.    *)
(***************************************************************************)
\* {"type": "string"}
IsStringSchema(f) == f.kind = "string"

\* {"type": "array", "items": {"type": "string"}, "minitems": 3}
\* "minitems" is no keyword of JSON Schema (the keyword is minItems): the
\* validator ignores it, so no length is required.
IsBirthdaySchema(f) ==
    /\ f.kind = "array"
    /\ \A i \in DOMAIN f.arr : f.arr[i].kind = "string"

\* the schema of "items": type object, properties, required
IsItemSchema(e) ==
    /\ e.kind = "object"
    /\ e.surname.kind # "absent" => IsStringSchema(e.surname)
    /\ e.name.kind # "absent" => IsStringSchema(e.name)
    /\ e.zodiac.kind # "absent" => IsStringSchema(e.zodiac)
    /\ e.birthday.kind # "absent" => IsBirthdaySchema(e.birthday)
    /\ e.surname.kind # "absent"
    /\ e.name.kind # "absent"
    /\ e.birthday.kind # "absent"

\* A mutant: the "zodiac" property is not checked.
validation_NoZodiacCheck(instance) ==
    /\ instance.kind = "array"
    /\ \A i \in DOMAIN instance.elems :
          IsItemSchema([instance.elems[i] EXCEPT !.zodiac = FAbsent])

\* ValidationError is caught and turned into False; nothing else is raised.
validation(instance) ==
    /\ instance.kind = "array"
    /\ \A i \in DOMAIN instance.elems : IsItemSchema(instance.elems[i])

(***************************************************************************)
(* Text.  A str is a sequence of code points.                              *)
(***************************************************************************)
RECURSIVE Concat(_)
\* the concatenation of a sequence of sequences
Concat(ss) == IF ss = <<>> THEN <<>> ELSE Head(ss) \o Concat(Tail(ss))

IsDigit(c) == c >= 48 /\ c <= 57
IsSurrogate(c) == c >= 55296 /\ c <= 57343

\* one lower-case hexadecimal digit, as json writes \u00xx
HexDigit(n) == IF n < 10 THEN 48 + n ELSE 87 + n

\* the value of a hexadecimal digit, -1 for any other character
HexValue(c) ==
    IF IsDigit(c) THEN c - 48
    ELSE IF c >= 97 /\ c <= 102 THEN c - 87
    ELSE IF c >= 65 /\ c <= 70 THEN c - 55
    ELSE -1

(***************************************************************************)
(* json.dump(people_list, f, ensure_ascii=False, indent=4).                *)
(* The encoder yields chunks of text; the indentation is left out, being   *)
(* white space the decoder skips.  A chunk is [tok, chars]: tok is one of  *)
(* "[", "]", "{", "}", ",", "null", "num", "str", or "k_<key>" for a key   *)
(* with its ": " separator; chars is the text of a "str" or "num" chunk.   *)
(***************************************************************************)
Punct(t) == [tok |-> t, chars |-> <<>>]
KeyTok(k) == Punct("k_" \o k)

\* ESCAPE_DCT of json.encoder: \\ \" \b \f \n \r \t, \u00xx below 0x20
EscapeChar(c) ==
    CASE c = 92 -> <<92, 92>>
      [] c = 34 -> <<92, 34>>
      [] c = 8 -> <<92, 98>>
      [] c = 12 -> <<92, 102>>
      [] c = 10 -> <<92, 110>>
      [] c = 13 -> <<92, 114>>
      [] c = 9 -> <<92, 116>>
      [] OTHER -> IF c < 32
                  THEN <<92, 117, 48, 48, HexDigit(c \div 16), HexDigit(c % 16)>>
                  ELSE <<c>>

\* py_encode_basestring: with ensure_ascii=False every other code point is
\* written as it is
EncodeString(s) ==
    <<34>> \o Concat([i \in DOMAIN s |-> EscapeChar(s[i])]) \o <<34>>

DumpAtom(a) ==
    CASE a.kind = "string" -> <<[tok |-> "str", chars |-> EncodeString(a.str)]>>
      [] a.kind = "null" -> <<Punct("null")>>
      [] a.kind = "number" -> <<[tok |-> "num", chars |-> a.str]>>

\* the chunks of a list, given the chunks of each item
DumpItems(items) ==
    <<Punct("[")>>
    \o Concat([i \in DOMAIN items |->
                  IF i = 1 THEN items[i] ELSE <<Punct(",")>> \o items[i]])
    \o <<Punct("]")>>

DumpField(f) ==
    IF f.kind = "array"
    THEN DumpItems([i \in DOMAIN f.arr |-> DumpAtom(f.arr[i])])
    ELSE DumpAtom(f)

\* the keys a dict holds, in the order of Keys
PresentKeys(d) == SelectSeq(Keys, LAMBDA k : Field(d, k).kind # "absent")

DumpDict(d) ==
    LET ks == PresentKeys(d)
    IN  <<Punct("{")>>
        \o Concat([i \in DOMAIN ks |->
                      (IF i = 1 THEN <<>> ELSE <<Punct(",")>>)
                      \o <<KeyTok(ks[i])>> \o DumpField(Field(d, ks[i]))])
        \o <<Punct("}")>>

DumpElement(e) == IF e.kind = "object" THEN DumpDict(e) ELSE DumpAtom(e)

\* json.dump of a Python list
DumpList(people_list) ==
    DumpItems([i \in DOMAIN people_list |-> DumpElement(people_list[i])])

DumpDocument(doc) == IF doc.kind = "array" THEN DumpList(doc.elems) ELSE DumpAtom(doc)

(***************************************************************************)
(* Codecs of the text layer of open().                                     *)
(***************************************************************************)
\* str.encode("utf-8") of one code point; <<>> stands for UnicodeEncodeError
\* (surrogates not allowed)
Utf8EncodeChar(c) ==
    IF c < 128 THEN <<c>>
    ELSE IF c < 2048 THEN <<192 + (c \div 64), 128 + (c % 64)>>
    ELSE IF IsSurrogate(c) THEN <<>>
    ELSE IF c < 65536
         THEN <<224 + (c \div 4096), 128 + ((c \div 64) % 64), 128 + (c % 64)>>
    ELSE <<240 + (c \div 262144), 128 + ((c \div 4096) % 64),
           128 + ((c \div 64) % 64), 128 + (c % 64)>>

CanUtf8Encode(s) == \A i \in DOMAIN s : ~IsSurrogate(s[i])
Utf8Encode(s) == Concat([i \in DOMAIN s |-> Utf8EncodeChar(s[i])])

IsCont(b) == b >= 128 /\ b <= 191

\* the number of bytes of the UTF-8 sequence that starts at bs[i], 0 when
\* the bytes there are no valid sequence (strict decoding)
Utf8SeqLen(bs, i) ==
    LET b == bs[i]
        n == Len(bs)
    IN  IF b < 128 THEN 1
        ELSE IF b >= 194 /\ b <= 223
             THEN IF i + 1 <= n /\ IsCont(bs[i + 1]) THEN 2 ELSE 0
        ELSE IF b >= 224 /\ b <= 239
             THEN IF /\ i + 2 <= n
                     /\ IsCont(bs[i + 1]) /\ IsCont(bs[i + 2])
                     /\ (b = 224 => bs[i + 1] >= 160)
                     /\ (b = 237 => bs[i + 1] <= 159)
                  THEN 3 ELSE 0
        ELSE IF b >= 240 /\ b <= 244
             THEN IF /\ i + 3 <= n
                     /\ IsCont(bs[i + 1]) /\ IsCont(bs[i + 2]) /\ IsCont(bs[i + 3])
                     /\ (b = 240 => bs[i + 1] >= 144)
                     /\ (b = 244 => bs[i + 1] <= 143)
                  THEN 4 ELSE 0
        ELSE 0

Utf8CodePoint(bs, i, n) ==
    CASE n = 1 -> bs[i]
      [] n = 2 -> (bs[i] - 192) * 64 + (bs[i + 1] - 128)
      [] n = 3 -> (bs[i] - 224) * 4096 + (bs[i + 1] - 128) * 64 + (bs[i + 2] - 128)
      [] n = 4 -> (bs[i] - 240) * 262144 + (bs[i + 1] - 128) * 4096
                  + (bs[i + 2] - 128) * 64 + (bs[i + 3] - 128)

RECURSIVE Utf8DecodeFrom(_, _, _)
Utf8DecodeNext(bs, i, acc, n) ==
    IF n = 0 THEN [ok |-> FALSE, chars |-> <<>>]
    ELSE Utf8DecodeFrom(bs, i + n, Append(acc, Utf8CodePoint(bs, i, n)))

Utf8DecodeFrom(bs, i, acc) ==
    IF i > Len(bs) THEN [ok |-> TRUE, chars |-> acc]
    ELSE Utf8DecodeNext(bs, i, acc, Utf8SeqLen(bs, i))

\* bytes.decode(encoding): "utf-8" is strict, "iso8859-1" maps every byte
\* to the code point of the same number
Decode(encoding, bs) ==
    IF encoding = "utf-8" THEN Utf8DecodeFrom(bs, 1, <<>>)
    ELSE [ok |-> TRUE, chars |-> bs]

(***************************************************************************)
(* json.load: the decoder over the chunks of the text.                     *)
(***************************************************************************)
\* the four hexadecimal digits at cs[i..i+3] as a number, -1 when they are
\* not four hexadecimal digits
Hex4(cs, i) ==
    IF i + 3 <= Len(cs) /\ \A j \in 0..3 : HexValue(cs[i + j]) >= 0
    THEN HexValue(cs[i]) * 4096 + HexValue(cs[i + 1]) * 256
         + HexValue(cs[i + 2]) * 16 + HexValue(cs[i + 3])
    ELSE -1

\* \uXXXX at cs[i]: a high surrogate followed by \uXXXX of a low surrogate
\* is the one code point of the pair
UnicodeEscape(cs, i, u, u2) ==
    IF u < 0 THEN [n |-> 0, c |-> 0]
    ELSE IF /\ u >= 55296 /\ u <= 56319
            /\ i + 7 <= Len(cs) /\ cs[i + 6] = 92 /\ cs[i + 7] = 117
            /\ u2 >= 56320 /\ u2 <= 57343
         THEN [n |-> 12, c |-> 65536 + (u - 55296) * 1024 + (u2 - 56320)]
    ELSE [n |-> 6, c |-> u]

\* One step of py_scanstring (strict) at cs[i], inside a string: n is the
\* number of characters taken, 0 for a character that is no part of a string
\* (a control character, a bad escape, the end of the text); c is the code
\* point they stand for
ScanChar(cs, i) ==
    LET c == cs[i]
        e == IF i + 1 <= Len(cs) THEN cs[i + 1] ELSE 0
        Esc(v) == [n |-> 2, c |-> v]
    IN  IF c < 32 THEN [n |-> 0, c |-> 0]
        ELSE IF c # 92 THEN [n |-> 1, c |-> c]
        ELSE CASE e \in {34, 92, 47} -> Esc(e)
               [] e = 98 -> Esc(8)
               [] e = 102 -> Esc(12)
               [] e = 110 -> Esc(10)
               [] e = 114 -> Esc(13)
               [] e = 116 -> Esc(9)
               [] e = 117 -> UnicodeEscape(cs, i, Hex4(cs, i + 2), Hex4(cs, i + 8))
               [] OTHER -> [n |-> 0, c |-> 0]

RECURSIVE ScanString(_, _, _)
\* the rest of the string after the step sc taken at cs[i]
ScanNext(cs, i, acc, sc) ==
    IF sc.n = 0 THEN [ok |-> FALSE, str |-> <<>>]
    ELSE ScanString(cs, i + sc.n, Append(acc, sc.c))

\* py_scanstring from position i, after the opening quote; the closing quote
\* has to end the chunk
ScanString(cs, i, acc) ==
    IF i > Len(cs) THEN [ok |-> FALSE, str |-> <<>>]
    ELSE IF cs[i] = 34 THEN [ok |-> i = Len(cs), str |-> acc]
    ELSE ScanNext(cs, i, acc, ScanChar(cs, i))

ParseFail == [ok |-> FALSE]
Parsed(v, next) == [ok |-> TRUE, v |-> v, next |-> next]

StringAtom(r) == IF r.ok THEN Parsed(JString(r.str), 0) ELSE ParseFail

\* a string, null or a number from one chunk
ParseAtom(t) ==
    CASE t.tok = "str" ->
            IF t.chars # <<>> /\ t.chars[1] = 34
            THEN StringAtom(ScanString(t.chars, 2, <<>>))
            ELSE ParseFail
      [] t.tok = "null" -> Parsed(JNull, 0)
      [] t.tok = "num" ->
            IF t.chars # <<>> /\ \A i \in DOMAIN t.chars : IsDigit(t.chars[i])
            THEN Parsed(JNumber(t.chars), 0)
            ELSE ParseFail
      [] OTHER -> ParseFail

RECURSIVE ParseAtomItems(_, _, _)
\* after the item a at ts[i]: "," and more items, or "]"
AfterAtomItem(ts, i, acc, a) ==
    IF ~a.ok THEN ParseFail
    ELSE IF ts[i + 1].tok = "," THEN ParseAtomItems(ts, i + 2, Append(acc, a.v))
    ELSE IF ts[i + 1].tok = "]" THEN Parsed(Append(acc, a.v), i + 2)
    ELSE ParseFail

\* the items of a list of atoms, from the first item at ts[i] to the "]"
ParseAtomItems(ts, i, acc) ==
    IF i + 1 > Len(ts) THEN ParseFail
    ELSE AfterAtomItem(ts, i, acc, ParseAtom(ts[i]))

ArrayField(r) == IF r.ok THEN Parsed(FArray(r.v), r.next) ELSE ParseFail
AtomField(a, next) == IF a.ok THEN Parsed(FAtom(a.v), next) ELSE ParseFail

\* the value under a key: an atom or a list of atoms
ParseField(ts, i) ==
    IF i > Len(ts) THEN ParseFail
    ELSE IF ts[i].tok = "["
         THEN IF i + 1 <= Len(ts) /\ ts[i + 1].tok = "]"
              THEN Parsed(FArray(<<>>), i + 2)
              ELSE ArrayField(ParseAtomItems(ts, i + 1, <<>>))
    ELSE AtomField(ParseAtom(ts[i]), i + 1)

IsKeyTok(t) == \E j \in DOMAIN Keys : t = KeyTok(Keys[j])
KeyOf(t) == Keys[CHOOSE j \in DOMAIN Keys : t = KeyTok(Keys[j])]

RECURSIVE ParseMembers(_, _, _)
\* after the value f of the key k: "," and more members, or "}"; a key met
\* again replaces the value it had
AfterMember(ts, d, k, f) ==
    IF ~f.ok \/ f.next > Len(ts) THEN ParseFail
    ELSE IF ts[f.next].tok = ","
         THEN ParseMembers(ts, f.next + 1, SetField(d, k, f.v))
    ELSE IF ts[f.next].tok = "}" THEN Parsed(SetField(d, k, f.v), f.next + 1)
    ELSE ParseFail

\* the members of a dict, from the first key at ts[i] to the "}"
ParseMembers(ts, i, d) ==
    IF i > Len(ts) \/ ~IsKeyTok(ts[i]) THEN ParseFail
    ELSE AfterMember(ts, d, KeyOf(ts[i]), ParseField(ts, i + 1))

EmptyDict == Dict(FAbsent, FAbsent, FAbsent, FAbsent)

AtomElement(a, next) == IF a.ok THEN Parsed(EAtom(a.v), next) ELSE ParseFail

\* an item of the top-level list: a dict or an atom
ParseElement(ts, i) ==
    IF i > Len(ts) THEN ParseFail
    ELSE IF ts[i].tok = "{"
         THEN IF i + 1 <= Len(ts) /\ ts[i + 1].tok = "}"
              THEN Parsed(EmptyDict, i + 2)
              ELSE ParseMembers(ts, i + 1, EmptyDict)
    ELSE AtomElement(ParseAtom(ts[i]), i + 1)

RECURSIVE ParseElements(_, _, _)
\* after the item e: "," and more items, or "]"
AfterElement(ts, acc, e) ==
    IF ~e.ok \/ e.next > Len(ts) THEN ParseFail
    ELSE IF ts[e.next].tok = "," THEN ParseElements(ts, e.next + 1, Append(acc, e.v))
    ELSE IF ts[e.next].tok = "]" THEN Parsed(Append(acc, e.v), e.next + 1)
    ELSE ParseFail

ParseElements(ts, i, acc) == AfterElement(ts, acc, ParseElement(ts, i))

ListDocument(es) == IF es.ok THEN Parsed(DList(es.v), es.next) ELSE ParseFail
AtomDocument(a) == IF a.ok THEN Parsed(DAtom(a.v), 2) ELSE ParseFail

\* the value has to be the whole text ("Extra data" otherwise)
WholeText(ts, r) ==
    IF r.ok /\ r.next = Len(ts) + 1 THEN [ok |-> TRUE, v |-> r.v] ELSE ParseFail

\* json.loads of the text
ParseDocument(ts) ==
    IF ts = <<>> THEN ParseFail
    ELSE IF ts[1].tok = "["
         THEN IF Len(ts) >= 2 /\ ts[2].tok = "]"
              THEN WholeText(ts, Parsed(DList(<<>>), 3))
              ELSE WholeText(ts, ListDocument(ParseElements(ts, 2, <<>>)))
    ELSE WholeText(ts, AtomDocument(ParseAtom(ts[1])))

(***************************************************************************)
(* Files.  A file is [exists, data], data the chunks of bytes written.     *)
(***************************************************************************)
NoFile == [exists |-> FALSE, data |-> <<>>]
FileOf(chunks) == [exists |-> TRUE, data |-> chunks]

EncodeChunk(t) == [tok |-> t.tok, bytes |-> Utf8Encode(t.chars)]
EncodeChunks(ts) == [i \in DOMAIN ts |-> EncodeChunk(ts[i])]

\* The encoder yields a string, None or a number that is an item of a list
\* in one chunk with the "[" or "," before it, so a write that fails on the
\* item leaves that punctuation unwritten too.
WrittenBefore(ts, k) ==
    IF k > 1 /\ ts[k - 1].tok \in {"[", ","} /\ ts[k].tok \in {"str", "null", "num"}
    THEN k - 2
    ELSE k - 1

\* the chunks ts written one after the other; bad holds the chunks with a
\* surrogate, which str.encode("utf-8") refuses
WriteChunks(ts, bad) ==
    IF bad = {}
    THEN [outcome |-> "ok", file |-> FileOf(EncodeChunks(ts))]
    ELSE [outcome |-> "UnicodeEncodeError",
          file |-> FileOf(EncodeChunks(SubSeq(ts, 1,
                      WrittenBefore(ts, CHOOSE j \in bad : \A j2 \in bad : j <= j2))))]

SaveChunks(ts) == WriteChunks(ts, {k \in DOMAIN ts : ~CanUtf8Encode(ts[k].chars)})

\* A mutant: the file is opened for appending instead of being truncated.
save_people_Append(file, people_list) ==
    [outcome |-> "ok",
     file |-> FileOf(file.data \o EncodeChunks(DumpList(people_list)))]

\* save_people: open(file_name, "w", encoding="utf-8") truncates the file,
\* json.dump writes chunk after chunk, a chunk holding a surrogate raises
\* UnicodeEncodeError and what was written before it stays in the file.
save_people(file, people_list) == SaveChunks(DumpList(people_list))

DecodeChunk(encoding, t) ==
    [tok |-> t.tok, chars |-> Decode(encoding, t.bytes).chars]

\* f.read() of a file opened with open(file_name, "r"): no encoding is given,
\* so the bytes are decoded with the locale's preferred encoding
ReadText(file, encoding) ==
    IF \A i \in DOMAIN file.data : Decode(encoding, file.data[i].bytes).ok
    THEN [ok |-> TRUE,
          chunks |-> [i \in DOMAIN file.data |-> DecodeChunk(encoding, file.data[i])]]
    ELSE [ok |-> FALSE, chunks |-> <<>>]

LoadResult(outcome, none, people) ==
    [outcome |-> outcome, none |-> none, people |-> people]

\* json.load(f): the text read, then parsed
JsonLoad(text) ==
    IF ~text.ok THEN [outcome |-> "UnicodeDecodeError"]
    ELSE [outcome |-> "ok", doc |-> ParseDocument(text.chunks)]

\* lines 43-46: the document, or None when it is not valid
Validated(doc) ==
    IF ~doc.ok THEN LoadResult("JSONDecodeError", TRUE, <<>>)
    ELSE IF validation(doc.v) THEN LoadResult("ok", FALSE, doc.v.elems)
    ELSE LoadResult("ok", TRUE, <<>>)

Loaded(js) ==
    IF js.outcome # "ok" THEN LoadResult(js.outcome, TRUE, <<>>)
    ELSE Validated(js.doc)

\* load_people: none is the return value None
load_people(file, encoding) ==
    IF ~file.exists THEN LoadResult("FileNotFoundError", TRUE, <<>>)
    ELSE Loaded(JsonLoad(ReadText(file, encoding)))

(***************************************************************************)
(* str.split, str.join, datetime.strptime.                                 *)
(***************************************************************************)
RECURSIVE SplitFrom(_, _, _, _, _)
SplitFrom(s, sep, i, cur, acc) ==
    IF i > Len(s) THEN Append(acc, cur)
    ELSE SplitFrom(s, sep, i + 1,
                   IF s[i] = sep THEN <<>> ELSE Append(cur, s[i]),
                   IF s[i] = sep THEN Append(acc, cur) ELSE acc)

\* s.split(sep) for a separator of one character: "" gives [""]
Split(s, sep) == SplitFrom(s, sep, 1, <<>>, <<>>)

\* sep.join(strs)
Join(strs, sep) ==
    Concat([i \in DOMAIN strs |-> IF i = 1 THEN strs[i] ELSE <<sep>> \o strs[i]])

\* %d of _strptime: 3[0-1]|[1-2]\d|0[1-9]|[1-9]| [1-9]
MatchesDay(cs) ==
    \/ /\ Len(cs) = 2
       /\ \/ cs[1] = 51 /\ cs[2] \in {48, 49}
          \/ cs[1] \in {49, 50} /\ IsDigit(cs[2])
          \/ cs[1] \in {48, 32} /\ cs[2] \in 49..57
    \/ Len(cs) = 1 /\ cs[1] \in 49..57

\* %m of _strptime: 1[0-2]|0[1-9]|[1-9]
MatchesMonth(cs) ==
    \/ /\ Len(cs) = 2
       /\ \/ cs[1] = 49 /\ cs[2] \in 48..50
          \/ cs[1] = 48 /\ cs[2] \in 49..57
    \/ Len(cs) = 1 /\ cs[1] \in 49..57

\* %Y of _strptime: \d\d\d\d
MatchesYear(cs) == Len(cs) = 4 /\ \A i \in 1..4 : IsDigit(cs[i])

RECURSIVE IntOf(_)
\* int() of matched text (a leading space of %d counts for nothing)
IntOf(cs) ==
    IF cs = <<>> THEN 0
    ELSE 10 * IntOf(SubSeq(cs, 1, Len(cs) - 1))
         + (IF cs[Len(cs)] = 32 THEN 0 ELSE cs[Len(cs)] - 48)

IsLeap(y) == y % 4 = 0 /\ (y % 100 # 0 \/ y % 400 = 0)

DaysInMonth(y, m) ==
    IF m = 2 THEN (IF IsLeap(y) THEN 29 ELSE 28)
    ELSE IF m \in {4, 6, 9, 11} THEN 30
    ELSE 31

NoDate == [ok |-> FALSE, year |-> 0, month |-> 0, day |-> 0]

\* datetime(year, month, day): year >= 1 and the day within the month
MakeDate(y, m, d) ==
    IF y >= 1 /\ d <= DaysInMonth(y, m)
    THEN [ok |-> TRUE, year |-> y, month |-> m, day |-> d]
    ELSE NoDate

\* the text matches with a day of dl and a month of ml characters
Fits(text, dl, ml) ==
    /\ Len(text) = dl + ml + 6
    /\ text[dl + 1] = 46
    /\ text[dl + ml + 2] = 46
    /\ MatchesDay(SubSeq(text, 1, dl))
    /\ MatchesMonth(SubSeq(text, dl + 2, dl + ml + 1))
    /\ MatchesYear(SubSeq(text, dl + ml + 3, dl + ml + 6))

DateOf(text, dl, ml) ==
    MakeDate(IntOf(SubSeq(text, dl + ml + 3, dl + ml + 6)),
             IntOf(SubSeq(text, dl + 2, dl + ml + 1)),
             IntOf(SubSeq(text, 1, dl)))

\* datetime.strptime(text, "%d.%m.%Y"): the whole text has to match
\* day "." month "." year, and the date has to exist; ok = FALSE stands for
\* ValueError.  Only ASCII digits are in the alphabet of the model.
strptime(text) ==
    CASE Fits(text, 2, 2) -> DateOf(text, 2, 2)
      [] Fits(text, 2, 1) -> DateOf(text, 2, 1)
      [] Fits(text, 1, 2) -> DateOf(text, 1, 2)
      [] Fits(text, 1, 1) -> DateOf(text, 1, 1)
      [] OTHER -> NoDate

\* the order of datetime values: t1 < t2
DateLess(t1, t2) ==
    \/ t1.year < t2.year
    \/ t1.year = t2.year /\ t1.month < t2.month
    \/ t1.year = t2.year /\ t1.month = t2.month /\ t1.day < t2.day

(***************************************************************************)
(* The operations on the collection.                                       *)
(***************************************************************************)
\* A mutant: the birthday is stored as the one string it was given as.
add_person_NoSplit(people, surname, name, zodiac, birthday) ==
    Append(people,
           Dict(FString(surname), FString(name), zodiac, FArray(StrAtoms(<<birthday>>))))

\* add_person: zodiac is FString(z), or FNone when -z was not given
add_person(people, surname, name, zodiac, birthday) ==
    Append(people,
           Dict(FString(surname), FString(name), zodiac,
                FArray(StrAtoms(Split(birthday, 46)))))

\* A mutant: the comparison ignores the case of ASCII letters.
select_people_IgnoreCase(surname, people) ==
    LET Low(cs) == [i \in DOMAIN cs |->
                      IF cs[i] >= 65 /\ cs[i] <= 90 THEN cs[i] + 32 ELSE cs[i]]
    IN  SelectSeq(people,
                  LAMBDA i : i.surname.kind = "string" /\ Low(i.surname.str) = Low(surname))

\* select_people: i.get("surname", "") == surname
select_people(surname, people) ==
    SelectSeq(people,
              LAMBDA i :
                  IF i.surname.kind = "absent" THEN <<>> = surname
                  ELSE i.surname.kind = "string" /\ i.surname.str = surname)

\* the key of the sort: datetime.strptime(".".join(x["birthday"]), "%d.%m.%Y")
SortKey(x) == strptime(Join(Strs(x.birthday.arr), 46))

\* x goes after every item whose key is not greater: the sort is stable
InsertAt(sorted, x, n) ==
    SubSeq(sorted, 1, n) \o <<x>> \o SubSeq(sorted, n + 1, Len(sorted))

InsertByKey(sorted, x) ==
    InsertAt(sorted, x,
             Cardinality({i \in DOMAIN sorted :
                            ~DateLess(SortKey(x), SortKey(sorted[i]))}))

RECURSIVE SortFrom(_, _, _)
SortFrom(people, i, acc) ==
    IF i > Len(people) THEN acc
    ELSE SortFrom(people, i + 1, InsertByKey(acc, people[i]))

\* A mutant: the list is left in the order add_person gave it.
Sort_None(people) ==
    [ok |-> \A i \in DOMAIN people : SortKey(people[i]).ok, people |-> people]

\* A mutant: a birthday that is no date does not end the sort.
Sort_IgnoreBadDates(people) == [ok |-> TRUE, people |-> SortFrom(people, 1, <<>>)]

\* people.sort(key=...): the key of every item is computed first, and a key
\* that raises ValueError ends the sort (ok = FALSE)
Sort(people) ==
    IF \A i \in DOMAIN people : SortKey(people[i]).ok
    THEN [ok |-> TRUE, people |-> SortFrom(people, 1, <<>>)]
    ELSE [ok |-> FALSE, people |-> people]

\* display_people: the empty state, or the table with one row per person;
\* "{:<20}".format(None) raises TypeError
display_people(people) ==
    IF \E i \in DOMAIN people : people[i].zodiac.kind = "null"
    THEN [state |-> "TypeError", rows |-> <<>>]
    ELSE IF people # <<>>
    THEN [state |-> "table",
          rows |-> [i \in DOMAIN people |->
                      [idx |-> i,
                       surname |-> people[i].surname.str,
                       name |-> people[i].name.str,
                       zodiac |-> people[i].zodiac.str,
                       birthday |-> Join(Strs(people[i].birthday.arr), 46)]]]
    ELSE [state |-> "empty", rows |-> <<>>]

NoOutput == [state |-> "none", rows |-> <<>>]

(***************************************************************************)
(* main(): one invocation of the program.                                  *)
(*   files     the two files a file name can mean: "home" is               *)
(*             Path.home() / filename, "cwd" is filename as open() takes   *)
(*             it, relative to the working directory                       *)
(*   same_dir  the two are one file (the program runs in the home          *)
(*             directory, or filename is absolute)                         *)
(*   encoding  the locale's preferred encoding                             *)
(* The other variables hold the last invocation: its command and           *)
(* arguments, what load_people was given and returned, the local variables *)
(* of main at its end, how it ended (outcome), the files before it, and    *)
(* chain, the number of adds that completed in a row from an absent file   *)
(* (-1 when the home file was there at the start or an add failed).        *)
(***************************************************************************)
VARIABLES files, same_dir, encoding, command, args, load_path, loaded, added,
          people, selected, is_dirty, saves, output, outcome, before, chain

vars == <<files, same_dir, encoding, command, args, load_path, loaded, added,
          people, selected, is_dirty, saves, output, outcome, before, chain>>

\* the file open(name) opens, for name the string args.filename
OpenRelative(sd) == IF sd THEN "home" ELSE "cwd"

NotLoaded == LoadResult("not called", TRUE, <<>>)

Result(ld, lp, ad, pe, se, di, sv, ou, oc, fs) ==
    [loaded |-> ld, load_path |-> lp, added |-> ad, people |-> pe, selected |-> se,
     is_dirty |-> di, saves |-> sv, output |-> ou, outcome |-> oc, files |-> fs]

Ended(out) == IF out.state = "TypeError" THEN "TypeError" ELSE "ok"

\* lines 211-212 after an add: is_dirty is set, save_people(home_path, people)
Saved(ld, lp, p1, p2, fs, sv) ==
    Result(ld, lp, p1, p2, <<>>, TRUE, 1, NoOutput, sv.outcome,
           [fs EXCEPT !.home = sv.file])

\* lines 197-202: the sort; ValueError ends the run before is_dirty is set
Sorted(ld, lp, p1, fs, st) ==
    IF ~st.ok
    THEN Result(ld, lp, p1, p1, <<>>, FALSE, 0, NoOutput, "ValueError", fs)
    ELSE Saved(ld, lp, p1, st.people, fs, save_people(fs.home, st.people))

\* lines 194-196
Added(ld, lp, fs, p1) == Sorted(ld, lp, p1, fs, Sort(p1))

\* lines 204-206
Selected(ld, lp, fs, people0, sel) ==
    Result(ld, lp, <<>>, people0, sel, FALSE, 0, display_people(sel),
           Ended(display_people(sel)), fs)

\* lines 192-212 with people the list the commands work on
Match(cmd, a, fs, ld, lp, people0) ==
    CASE cmd = "add" ->
            Added(ld, lp, fs,
                  add_person(people0, a.surname, a.name, a.zodiac, a.birthday))
      [] cmd = "select" ->
            Selected(ld, lp, fs, people0, select_people(a.surname, people0))
      [] cmd = "display" ->
            Result(ld, lp, <<>>, people0, <<>>, FALSE, 0, display_people(people0),
                   Ended(display_people(people0)), fs)

\* lines 189-190: None becomes []; an exception of load_people ends the run
AfterLoad(cmd, a, fs, ld, lp) ==
    IF ld.outcome \notin {"ok", "not called"}
    THEN Result(ld, lp, <<>>, <<>>, <<>>, FALSE, 0, NoOutput, ld.outcome, fs)
    ELSE Match(cmd, a, fs, ld, lp, IF ld.none THEN <<>> ELSE ld.people)

\* lines 181-212, from the parsed arguments on: home_path is the file "home",
\* and line 187 calls load_people(args.filename), not load_people(home_path)
main(cmd, a, fs, sd, enc) ==
    IF fs.home.exists
    THEN AfterLoad(cmd, a, fs, load_people(fs[OpenRelative(sd)], enc), OpenRelative(sd))
    ELSE AfterLoad(cmd, a, fs, NotLoaded, "none")

\* what the invocation leaves in the variables
Invoke(cmd, a) ==
    \E r \in {main(cmd, a, files, same_dir, encoding)} :
        /\ command' = cmd
        /\ args' = a
        /\ before' = files
        /\ files' = r.files
        /\ loaded' = r.loaded
        /\ load_path' = r.load_path
        /\ added' = r.added
        /\ people' = r.people
        /\ selected' = r.selected
        /\ is_dirty' = r.is_dirty
        /\ saves' = r.saves
        /\ output' = r.output
        /\ outcome' = r.outcome
        /\ chain' = IF cmd # "add" THEN chain
                    ELSE IF chain >= 0 /\ r.outcome = "ok" THEN chain + 1
                    ELSE -1
        /\ UNCHANGED <<same_dir, encoding>>

(***************************************************************************)
(* The strings and documents the model draws from.                         *)
(***************************************************************************)
Doe == <<68, 111, 101>>
doe == <<100, 111, 101>>
Roe == <<82, 111, 101>>
Jane == <<74, 97, 110, 101>>
Rick == <<82, 105, 99, 107>>
Leo == <<76, 101, 111>>
\* Cyrillic "Яна", a quote and a backslash
Yana == <<1071, 1085, 1072, 34, 92>>
\* "J" and the lone surrogate U+DC80 a byte of argv that is no UTF-8 decodes to
Surrogate == <<74, 56448>>
D_15_03_1990 == <<49, 53, 46, 48, 51, 46, 49, 57, 57, 48>>
D_01_01_1980 == <<48, 49, 46, 48, 49, 46, 49, 57, 56, 48>>
D_1_1_1980 == <<49, 46, 49, 46, 49, 57, 56, 48>>
D_29_02_2000 == <<50, 57, 46, 48, 50, 46, 50, 48, 48, 48>>
D_31_02_1990 == <<51, 49, 46, 48, 50, 46, 49, 57, 57, 48>>
D_15_03 == <<49, 53, 46, 48, 51>>
D_aa_03_1990 == <<97, 97, 46, 48, 51, 46, 49, 57, 57, 48>>

Args(su, na, zo, bd) == [surname |-> su, name |-> na, zodiac |-> zo, birthday |-> bd]
NoArgs == Args(<<>>, <<>>, FAbsent, <<>>)

\* the arguments of add: -z is optional, its absence gives None
AddInputs ==
    { Args(Doe, Jane, FString(Leo), D_15_03_1990),
      Args(Roe, Rick, FString(<<>>), D_01_01_1980),
      Args(doe, Yana, FString(Leo), D_1_1_1980),
      Args(Doe, Jane, FNone, D_15_03_1990),
      Args(Doe, Surrogate, FString(Leo), D_29_02_2000),
      Args(Doe, Jane, FString(Leo), D_31_02_1990),
      Args(Doe, Jane, FString(Leo), D_15_03),
      Args(Roe, Rick, FString(Leo), D_aa_03_1990) }

SelectInputs == {Doe, doe, Rick}

Person(a) == Dict(FString(a.surname), FString(a.name), a.zodiac,
                  FArray(StrAtoms(Split(a.birthday, 46))))

UserFile(doc) == FileOf(EncodeChunks(DumpDocument(doc)))

\* files a user may have put at the path before the first invocation
InitFiles ==
    { NoFile,
      \* a valid document, not in the order of the birthdays
      UserFile(DList(<<Person(Args(Doe, Jane, FString(Leo), D_15_03_1990)),
                       Person(Args(Roe, Rick, FString(<<>>), D_01_01_1980))>>)),
      \* valid: no zodiac, the birthday in one token
      UserFile(DList(<<Dict(FString(Doe), FString(Yana), FAbsent,
                            FArray(<<JString(D_15_03_1990)>>))>>)),
      \* valid for the schema, but the birthday is no date
      UserFile(DList(<<Person(Args(Roe, Rick, FString(Leo), D_aa_03_1990))>>)),
      \* not valid: "name" is missing
      UserFile(DList(<<Dict(FString(Doe), FAbsent, FString(Leo),
                            FArray(StrAtoms(Split(D_15_03_1990, 46))))>>)),
      \* not valid: the document is a number
      UserFile(DAtom(JNumber(<<49>>))),
      \* no JSON: the text ends after "["
      FileOf(<<[tok |-> "[", bytes |-> <<>>]>>),
      \* the string "Я\/" followed by the byte 0xFF, which no UTF-8 text holds
      FileOf(<<[tok |-> "str",
                bytes |-> <<34, 92, 117, 48, 52, 50, 70, 92, 47, 255, 34>>]>>) }

CwdFiles ==
    { NoFile,
      UserFile(DList(<<Person(Args(Roe, Rick, FString(<<>>), D_01_01_1980))>>)),
      UserFile(DList(<<Dict(FString(Doe), FAbsent, FString(Leo),
                            FArray(StrAtoms(Split(D_15_03_1990, 46))))>>)) }

(***************************************************************************)
(* The specification: any sequence of invocations.                         *)
(***************************************************************************)
Init ==
    /\ same_dir \in BOOLEAN
    /\ encoding \in {"utf-8", "iso8859-1"}
    /\ \E h \in InitFiles, c \in CwdFiles :
          /\ same_dir => c = NoFile
          /\ files = [home |-> h, cwd |-> c]
    /\ before = files
    /\ command = "none"
    /\ args = NoArgs
    /\ load_path = "none"
    /\ loaded = NotLoaded
    /\ added = <<>>
    /\ people = <<>>
    /\ selected = <<>>
    /\ is_dirty = FALSE
    /\ saves = 0
    /\ output = NoOutput
    /\ outcome = "none"
    /\ chain = IF files.home.exists THEN -1 ELSE 0

\* what load_people would return now, [] when it is not called or fails
Collection == main("display", NoArgs, files, same_dir, encoding).people

\* <prog> add <filename> -s S -n N [-z Z] -b D.M.Y
Add(a) ==
    /\ Len(Collection) < MaxPeople
    /\ chain < MaxAdds
    /\ Invoke("add", a)

\* <prog> select <filename> -s S
Select(s) == Invoke("select", Args(s, <<>>, FAbsent, <<>>))

\* <prog> display <filename>
Display == Invoke("display", NoArgs)

Next ==
    \/ \E a \in AddInputs : Add(a)
    \/ \E s \in SelectInputs : Select(s)
    \/ Display

Spec == Init /\ [][Next]_vars

(***************************************************************************)
(* The specification of validation alone: one display of a file that holds *)
(* a document drawn from every combination of kinds of values.             *)
(***************************************************************************)
Tokens_15_03_1990 == StrAtoms(Split(D_15_03_1990, 46))

\* what a document may hold under "surname", "name" or "zodiac"
ScalarFields ==
    {FAbsent, FString(Doe), FNone, FAtom(JNumber(<<49>>)), FArray(Tokens_15_03_1990)}

\* what a document may hold under "birthday"
BirthdayFields ==
    {FAbsent, FString(D_15_03_1990), FNone, FArray(<<>>), FArray(Tokens_15_03_1990),
     FArray(<<JNumber(<<49, 53>>)>>), FArray(<<JString(<<49, 53>>), JNull>>)}

ValidationDocs ==
    {DList(<<Dict(su, na, zo, bd)>>) :
        su \in ScalarFields, na \in ScalarFields, zo \in ScalarFields,
        bd \in BirthdayFields}
    \cup {DList(<<Person(Args(Doe, Jane, FString(Leo), D_15_03_1990)), e>>) :
            e \in {EAtom(JString(Doe)), EAtom(JNull), EmptyDict,
                   Person(Args(Roe, Rick, FNone, D_01_01_1980)),
                   Dict(FString(Roe), FString(Rick), FAbsent, FArray(<<>>))}}
    \cup {DList(<<>>), DList(<<EAtom(JNumber(<<49>>))>>),
          DAtom(JString(Doe)), DAtom(JNull), DAtom(JNumber(<<49>>))}

InitValidation ==
    /\ same_dir = TRUE
    /\ encoding = "utf-8"
    /\ \E doc \in ValidationDocs : files = [home |-> UserFile(doc), cwd |-> NoFile]
    /\ before = files
    /\ command = "none"
    /\ args = NoArgs
    /\ load_path = "none"
    /\ loaded = NotLoaded
    /\ added = <<>>
    /\ people = <<>>
    /\ selected = <<>>
    /\ is_dirty = FALSE
    /\ saves = 0
    /\ output = NoOutput
    /\ outcome = "none"
    /\ chain = -1

SpecValidation == InitValidation /\ [][Display]_vars

(***************************************************************************)
(* The claims.                                                             *)
(***************************************************************************)
\* the list the commands of the last invocation worked on before any change
Collection0 == IF loaded.none THEN <<>> ELSE loaded.people

\* load_people returned, or was not called
LoadDone == loaded.outcome \in {"ok", "not called"}

\* C1: after an add command whose sort completed, every adjacent pair of the
\* collection is in calendar order: the date of the first birthday is not
\* later than the date of the second, whatever the order of the loaded file.
C1_AddLeavesBirthdaysInOrder ==
    (command = "add" /\ is_dirty) =>
        /\ \A i \in DOMAIN people : SortKey(people[i]).ok
        /\ \A i \in 1..(Len(people) - 1) :
              ~DateLess(SortKey(people[i + 1]), SortKey(people[i]))

\* C1 witness: an add completed on three records loaded out of order
C1_Witness ==
    /\ command = "add" /\ is_dirty /\ Len(people) = 3
    /\ \E i \in 1..(Len(loaded.people) - 1) :
          DateLess(SortKey(loaded.people[i + 1]), SortKey(loaded.people[i]))

\* the k-th smallest member of a set of indices
Nth(idx, k) == CHOOSE i \in idx : Cardinality({j \in idx : j <= i}) = k

\* C2: select_people returns exactly the records whose surname is the query,
\* code point for code point, in the order of the collection (the empty list
\* when there is none), and the collection is the loaded one, unchanged.
C2_SelectIsTheMatchingSubsequence ==
    (command = "select" /\ outcome = "ok") =>
        LET idx == {i \in DOMAIN people : people[i].surname = FString(args.surname)}
        IN  /\ Len(selected) = Cardinality(idx)
            /\ \A k \in DOMAIN selected : selected[k] = people[Nth(idx, k)]
            /\ people = Collection0
            /\ output.state = (IF idx = {} THEN "empty" ELSE "table")

\* C2 witness: a select of "Doe" on a collection that also holds "doe"
C2_Witness ==
    /\ command = "select" /\ outcome = "ok" /\ args.surname = Doe
    /\ selected # <<>>
    /\ \E i \in DOMAIN people : people[i].surname.str = doe

\* the document load_people parsed in the last invocation
Document0 == ParseDocument(ReadText(before[load_path], encoding).chunks).v

\* the words of the claim: an array of objects, each with a string surname, a
\* string name, a birthday that is an array of strings, and a zodiac that is
\* a string when it is there
Conforms(doc) ==
    /\ doc.kind = "array"
    /\ \A i \in DOMAIN doc.elems :
          LET e == doc.elems[i]
          IN  /\ e.kind = "object"
              /\ e.surname.kind = "string"
              /\ e.name.kind = "string"
              /\ e.birthday.kind = "array"
              /\ \A j \in DOMAIN e.birthday.arr : e.birthday.arr[j].kind = "string"
              /\ e.zodiac.kind \in {"absent", "string"}

\* C3: validation accepts a document (load_people returns it, not None) if
\* and only if it is an array of objects that each have a string surname, a
\* string name and a birthday that is an array of strings, with a zodiac that
\* is a string when present; it answers for every document.
C3_ValidationIffConforms ==
    loaded.outcome = "ok" =>
        /\ ~loaded.none <=> Conforms(Document0)
        /\ ~loaded.none => loaded.people = Document0.elems

\* C3 witness: a document refused only for its null zodiac
C3_Witness ==
    /\ loaded.outcome = "ok" /\ loaded.none
    /\ Len(Document0.elems) = 1
    /\ Document0.elems[1].zodiac.kind = "null"
    /\ Conforms(DList(<<[Document0.elems[1] EXCEPT !.zodiac = FAbsent]>>))

\* C4: once save_people has written a collection that passes validation,
\* load_people of the file it was written to returns the same collection.
C4_SaveThenLoadGivesTheCollection ==
    (command = "add" /\ outcome = "ok" /\ validation(DList(people))) =>
        load_people(files.home, encoding) = LoadResult("ok", FALSE, people)

\* C5: select and display leave the files as they were and save nothing; the
\* file is saved exactly when is_dirty is set, which is after an add whose
\* sort completed; an add that completes saves once, and the file then holds
\* the whole sorted collection, one record more than was loaded.
C5_WrittenExactlyOnMutation ==
    /\ command \in {"select", "display"} => files = before /\ saves = 0
    /\ saves = (IF is_dirty THEN 1 ELSE 0)
    /\ files # before => command = "add" /\ is_dirty
    /\ files.cwd = before.cwd
    /\ (command = "add" /\ outcome = "ok") =>
          /\ is_dirty
          /\ files.home = FileOf(EncodeChunks(DumpList(people)))
          /\ Len(people) = Len(Collection0) + 1

\* C5 witness: an add that completed over a file that held records
C5_Witness ==
    /\ command = "add" /\ outcome = "ok"
    /\ before.home.exists /\ before.home.data # <<>>
    /\ Len(people) >= 2

\* C6: when add_person leaves a record whose birthday tokens, joined by ".",
\* are no date, the run ends with the ValueError of the sort, is_dirty stays
\* unset, nothing is saved and the files are as they were.
C6_BadDateAbortsBeforeSave ==
    (command = "add" /\ LoadDone /\ \E i \in DOMAIN added : ~SortKey(added[i]).ok) =>
        /\ outcome = "ValueError"
        /\ ~is_dirty
        /\ saves = 0
        /\ files = before

\* C6 witness: the bad date is in a loaded record, the new record's is good
C6_Witness ==
    /\ command = "add" /\ LoadDone /\ Len(added) >= 2
    /\ ~SortKey(added[1]).ok
    /\ SortKey(added[Len(added)]).ok
    /\ before.home.exists

\* C7: the file load_people opens is the file whose existence was checked
\* and that save_people writes, the one under the home directory.
C7_LoadAndSaveUseTheHomePath == load_path # "none" => load_path = "home"

\* C8: when load_people returned None for a document that is not valid,
\* display and select show the empty state, and an add that completes leaves
\* in the file that was not valid a document of the new record alone.
C8_InvalidFileIsReplaced ==
    (loaded.outcome = "ok" /\ loaded.none) =>
        /\ command \in {"select", "display"} => outcome = "ok" /\ output.state = "empty"
        /\ (command = "add" /\ outcome = "ok") =>
              files[load_path] = UserFile(DList(<<Person(args)>>))

\* C9: add_person appends one record and keeps every record before it; the
\* new record holds the surname, name and zodiac given, and birthday tokens
\* that are the birthday text cut at every "."; it does so for any text, and
\* for a record equal to one already there.
C9_AddAppendsOneRecord ==
    /\ (command = "add" /\ LoadDone) =>
          LET new == added[Len(added)]
          IN  /\ Len(added) = Len(Collection0) + 1
              /\ SubSeq(added, 1, Len(Collection0)) = Collection0
              /\ new.kind = "object"
              /\ new.surname = FString(args.surname)
              /\ new.name = FString(args.name)
              /\ new.zodiac = args.zodiac
              /\ new.birthday.kind = "array"
              /\ \A j \in DOMAIN new.birthday.arr :
                    /\ new.birthday.arr[j].kind = "string"
                    /\ \A c \in DOMAIN new.birthday.arr[j].str :
                          new.birthday.arr[j].str[c] # 46
              /\ Join(Strs(new.birthday.arr), 46) = args.birthday
    /\ add_person(<<>>, Doe, Jane, FString(Leo), D_15_03_1990)
          = <<Dict(FString(Doe), FString(Jane), FString(Leo),
                   FArray(<<JString(<<49, 53>>), JString(<<48, 51>>),
                            JString(<<49, 57, 57, 48>>)>>))>>
    /\ Sort(add_person(add_person(<<>>, Doe, Jane, FString(Leo), D_15_03_1990),
                       Roe, Rick, FString(<<>>), D_01_01_1980)).people[1].surname.str
          = Roe

\* C9 witness: the record added equals one that was already there
C9_Witness ==
    /\ command = "add" /\ LoadDone /\ Len(added) >= 2
    /\ \E i \in 1..(Len(added) - 1) : added[i] = added[Len(added)]

\* the number of records of the document the home file holds
PersistedCount ==
    IF ~files.home.exists THEN 0
    ELSE Len(ParseDocument(ReadText(files.home, "utf-8").chunks).v.elems)

\* C10: after n adds that completed one after the other, starting with no
\* file, the persisted document holds n records (stated for the runs in
\* which the file read is the file written).
C10_NoRecordIsLost == (same_dir /\ chain >= 0) => PersistedCount = chain

====
